---- MODULE Spec2Model ----
(***************************************************************************)
(* The forecasting service backend/src/scripts/predictor_service.py.       *)
(*                                                                         *)
(* Every request is one run of the script (__main__ -> predict ->          *)
(* prepare_data / train_models).  Runs of the script are separate OS       *)
(* processes which share nothing but the files under MODELS_DIR, so the    *)
(* model is a set of processes, each executing the script line by line,    *)
(* over a shared map from artifact path to file content.                   *)
(*                                                                         *)
(* Numbers.  Scaled predictions are rationals n / PredScale, held as the   *)
(* integer n.  Prices are held in cents, so that round(x, 2) is a rounding *)
(* to an integer; confidence is held in hundredths for the same reason.    *)
(***************************************************************************)
EXTENDS Integers, Sequences, FiniteSets, TLC

\* ------------------------------------------------------------------ bounds
\* Requests started over one behaviour.
MaxRequests == 3
\* Denominator of the scaled predictions.
PredScale == 4
\* Largest number of fully-defined feature rows prepare_data returns.
MaxRows == 107

\* --------------------------------------------------------------- constants
window_size == 60
MIN_TRAIN_ROWS == 100
TARGET_SHIFT == 5

\* ------------------------------------------------------------------ inputs
Procs == {"p1", "p2"}
\* argv[1] of a run; NoArg is a run without arguments.
NoArg == "<none>"
Tickers == {"a", "A", "B"}
Symbols == {"A", "B"}
\* The four files of a symbol's artifact, in the order train_models writes them.
Kinds_lstmSecond == <<"rf", "lstm", "scaler_X", "scaler_y">>

Kinds == <<"rf", "scaler_X", "scaler_y", "lstm">>
KindSet == {Kinds[i] : i \in 1..Len(Kinds)}
Horizons == {1, 2}

\* len(df) after prepare_data.  The sequential runs draw it around every
\* threshold of the script (1, 60, 105); the concurrent runs draw it on both
\* sides of the training threshold.
RowChoices(fine) ==
  IF fine
  THEN {0, 1, window_size - 1, window_size,
        MIN_TRAIN_ROWS + TARGET_SHIFT - 1, MIN_TRAIN_ROWS + TARGET_SHIFT, MaxRows}
  ELSE {MIN_TRAIN_ROWS + TARGET_SHIFT - 1, MaxRows}

\* The fitted target scaler of a data set: data_min_ and data_max_ of the two
\* target columns, in cents.
NoFit == [min |-> <<0, 0>>, max |-> <<0, 0>>]
YFit1 == [min |-> <<1000, 1000>>, max |-> <<1250, 1000>>]
YFit2 == [min |-> <<5, 7>>, max |-> <<12, 10>>]

\* Scaled predictions (numerators over PredScale).  The forest averages scaled
\* training targets, so it answers within [0, 1]; the LSTM's Dense(2) output
\* layer is linear and unbounded.
RfVals(fine) == IF fine THEN {0, 1, PredScale} ELSE {1}
LstmVals(fine) == IF fine THEN {-3 * PredScale, 2, 2 * PredScale + 1} ELSE {2}
YFits(fine) == IF fine THEN {YFit1, YFit2} ELSE {YFit1}
\* get_sentiment, in hundredths (0.5 on any failure).
Sentiments(fine) == IF fine THEN {50, 85} ELSE {50}

\* ------------------------------------------------------------------- state
VARIABLES
  files,       \* MODELS_DIR: path -> content of the file
  pc,          \* position of each process in the script
  ticker,      \* predict's ticker (after upper())
  df,          \* the prepared data frame: its length and its target range
  reqId,       \* number of the request a process is running
  objs,        \* rf, scaler_X, scaler_y, lstm held in memory by predict
  hit,         \* TRUE when the request took the load branch of line 154
  out,         \* the lines the run printed on stdout
  exitCode,    \* exit status of the run (-1 while running)
  calc,        \* rf_pred_scaled, lstm_pred_scaled and scaler_y of line 162-178
  output,      \* the dictionary predict returns (line 182)
  lstm_set,    \* X_lstm / y_lstm built by train_models
  trainCount,  \* calls of train_models per symbol
  idx,         \* which of Kinds a loading or saving process is at
  nreq         \* requests started so far

vars == <<files, pc, ticker, df, reqId, objs, hit, out, exitCode, calc, output,
          lstm_set, trainCount, idx, nreq>>

\* ------------------------------------------------------------------- files
Absent == [run |-> 0, whole |-> FALSE, fit |-> NoFit]

\* str.upper() on the tickers of the model.
Upper(t) == IF t = "a" THEN "A" ELSE t

ArtifactPath_noTicker(t, k) == <<"A", k>>

\* os.path.join(MODELS_DIR, f"{ticker}_<kind>"): one file per ticker and kind.
ArtifactPath(t, k) == <<t, k>>

Paths == Symbols \X KindSet

Exists_wrongDir(path) == FALSE

\* os.path.exists
Exists(path) == files[path].run # 0

\* An object in memory: the training run that made it (0: none) and, for the
\* target scaler, what it was fitted to.
NoObj == [run |-> 0, fit |-> NoFit]
NoObjs == [k \in KindSet |-> NoObj]

\* -------------------------------------------------------- train_models: data
\* len(train_df): shift(-1) and shift(-5) leave the last five targets undefined
\* and dropna() removes those rows.
TrainDf(n) == IF n > TARGET_SHIFT THEN n - TARGET_SHIFT ELSE 0

InsufficientData_beforeDropna(n) == n < MIN_TRAIN_ROWS

\* Line 94: if len(train_df) < 100.
InsufficientData(n) == TrainDf(n) < MIN_TRAIN_ROWS

\* Lines 115-117, over the rows 0 .. m-1 of X_scaled and y_scaled: example number
\* e is made at i = window_size + e - 1; its frame is the slice
\* X_scaled[i - window_size : i] (start, stop) and its label is y_scaled[i].
LstmExamples(m) ==
  [e \in 1..(IF m > window_size THEN m - window_size ELSE 0) |->
     LET i == window_size + e - 1
     IN  [start |-> i - window_size, stop |-> i, label |-> i]]

\* ------------------------------------------------------------ predict: maths
Abs(x) == IF x < 0 THEN -x ELSE x

\* round(n / d, 2 decimals of the unit), d > 0: to the nearest integer, ties to
\* the even one.
RoundHalfEven(n, d) ==
  LET q == n \div d
      r == n % d
  IN  IF 2 * r < d THEN q
      ELSE IF 2 * r > d THEN q + 1
      ELSE IF q % 2 = 0 THEN q ELSE q + 1

\* MinMaxScaler: data_range_ with a constant column's zero range replaced by 1.
DataRange(fit, h) ==
  IF fit.max[h] = fit.min[h] THEN 1 ELSE fit.max[h] - fit.min[h]

Ensemble_treeOnly(rf_pred, lstm_pred) == [h \in Horizons |-> 2 * rf_pred[h]]

\* Line 173: (rf_pred_scaled + lstm_pred_scaled) / 2, as numerators over
\* 2 * PredScale.
Ensemble(rf_pred, lstm_pred) == [h \in Horizons |-> rf_pred[h] + lstm_pred[h]]

\* Line 174: scaler_y.inverse_transform, v * data_range + data_min; the price in
\* cents as a numerator over 2 * PredScale.
InverseTransform(fit, ens) ==
  [h \in Horizons |-> ens[h] * DataRange(fit, h) + 2 * PredScale * fit.min[h]]

\* Lines 185-186: round(float(final_preds[h]), 2), in cents.
Forecast(final) == [h \in Horizons |-> RoundHalfEven(final[h], 2 * PredScale)]

\* Line 177: np.abs(rf - lstm).mean(), as a numerator over 2 * PredScale.
Diff(rf_pred, lstm_pred) == Abs(rf_pred[1] - lstm_pred[1]) + Abs(rf_pred[2] - lstm_pred[2])

Confidence_unclamped(rf_pred, lstm_pred) ==
  RoundHalfEven(100 * (PredScale - Diff(rf_pred, lstm_pred)), PredScale)

\* Lines 178 and 193: round(max(0, 1 - diff * 2), 2), in hundredths.
Confidence(rf_pred, lstm_pred) ==
  LET c == PredScale - Diff(rf_pred, lstm_pred)
  IN  IF c > 0 THEN RoundHalfEven(100 * c, PredScale) ELSE 0

\* ------------------------------------------------------------------ outputs
NoCalc == [rf_pred |-> <<0, 0>>, lstm_pred |-> <<0, 0>>, fit |-> NoFit, sentiment |-> 0]
NoData == [rows |-> 0, fit |-> NoFit]

NoOutput == [kind |-> "none"]

\* Lines 182-194: the dictionary predict returns.
Output(t, c) ==
  [kind |-> "result", ticker |-> t,
   forecast |-> Forecast(InverseTransform(c.fit, Ensemble(c.rf_pred, c.lstm_pred))),
   indicators |-> [rsi |-> "rsi", sentiment |-> c.sentiment],
   expected_move |-> "std30",
   confidence |-> Confidence(c.rf_pred, c.lstm_pred)]

\* Lines 200 and 209: {"error": ...}.
ErrorJson(msg) == [kind |-> "error", error |-> msg]

ExceptHandlerOut_silent(o, msg) == o

\* Lines 207-209: the handler prints the error as one JSON line.
ExceptHandlerOut(o, msg) == Append(o, ErrorJson(msg))

\* -------------------------------------------------------------------- Init
Init ==
  /\ files = [path \in Paths |-> Absent]
  /\ pc = [p \in Procs |-> "idle"]
  /\ ticker = [p \in Procs |-> NoArg]
  /\ df = [p \in Procs |-> NoData]
  /\ reqId = [p \in Procs |-> 0]
  /\ objs = [p \in Procs |-> NoObjs]
  /\ hit = [p \in Procs |-> FALSE]
  /\ out = [p \in Procs |-> <<>>]
  /\ exitCode = [p \in Procs |-> -1]
  /\ calc = [p \in Procs |-> NoCalc]
  /\ output = [p \in Procs |-> NoOutput]
  /\ lstm_set = [p \in Procs |-> <<>>]
  /\ trainCount = [s \in Symbols |-> 0]
  /\ idx = [p \in Procs |-> 0]
  /\ nreq = 0

\* The process ends: its memory is gone, what it printed and its exit status stay.
Exit(p, code) ==
  /\ exitCode' = [exitCode EXCEPT ![p] = code]
  /\ pc' = [pc EXCEPT ![p] = "done"]
  /\ ticker' = [ticker EXCEPT ![p] = NoArg]
  /\ df' = [df EXCEPT ![p] = NoData]
  /\ reqId' = [reqId EXCEPT ![p] = 0]
  /\ objs' = [objs EXCEPT ![p] = NoObjs]
  /\ hit' = [hit EXCEPT ![p] = FALSE]
  /\ calc' = [calc EXCEPT ![p] = NoCalc]
  /\ output' = [output EXCEPT ![p] = NoOutput]
  /\ lstm_set' = [lstm_set EXCEPT ![p] = <<>>]
  /\ idx' = [idx EXCEPT ![p] = 0]

\* Lines 207-210: an exception leaves predict; the handler prints the error as
\* JSON and the run exits 1.
Raise(p, msg) ==
  /\ out' = [out EXCEPT ![p] = ExceptHandlerOut(out[p], msg)]
  /\ Exit(p, 1)

\* What a step that neither ends the run nor touches the named variables leaves.
Running(p, to) ==
  /\ pc' = [pc EXCEPT ![p] = to]
  /\ UNCHANGED <<ticker, reqId, out, exitCode>>

\* ----------------------------------------------------------------- actions
\* Lines 198-205 and 141-142: a run of the script starts.  Without an argument it
\* prints an error and exits 1.  Otherwise it calls predict(argv[1]), which
\* upper-cases the ticker and calls prepare_data: the download is empty
\* (ValueError), or a frame of n fully-defined rows comes back.  A frame with
\* targets carries the range its target columns would be fitted to.
Main(p, fine) ==
  /\ pc[p] \in {"idle", "done"}
  /\ nreq < MaxRequests
  /\ nreq' = nreq + 1
  /\ \E a \in Tickers \cup {NoArg} :
       IF a = NoArg
       THEN /\ out' = [out EXCEPT ![p] = <<ErrorJson("Ticker symbol required")>>]
            /\ Exit(p, 1)
       ELSE \/ /\ out' = [out EXCEPT ![p] = <<ErrorJson("No data found")>>]
               /\ Exit(p, 1)
            \/ /\ out' = [out EXCEPT ![p] = <<>>]
               /\ exitCode' = [exitCode EXCEPT ![p] = -1]
               /\ reqId' = [reqId EXCEPT ![p] = nreq + 1]
               /\ ticker' = [ticker EXCEPT ![p] = Upper(a)]
               /\ \E n \in RowChoices(fine) :
                    \E f \in (IF n > TARGET_SHIFT THEN YFits(fine) ELSE {NoFit}) :
                      df' = [df EXCEPT ![p] = [rows |-> n, fit |-> f]]
               /\ pc' = [pc EXCEPT ![p] = "exists_rf"]
               /\ UNCHANGED <<objs, hit, calc, output, lstm_set, idx>>
  /\ UNCHANGED <<files, trainCount>>

\* Line 154, left operand: os.path.exists(rf_path).
ExistsRf(p) ==
  /\ pc[p] = "exists_rf"
  /\ Running(p, IF Exists(ArtifactPath(ticker[p], "rf")) THEN "exists_lstm" ELSE "train")
  /\ UNCHANGED <<files, df, objs, hit, calc, output, lstm_set, trainCount, idx, nreq>>

\* Line 154, right operand: os.path.exists(lstm_path); both exist: load.
ExistsLstm(p) ==
  /\ pc[p] = "exists_lstm"
  /\ IF Exists(ArtifactPath(ticker[p], "lstm"))
     THEN /\ Running(p, "load")
          /\ hit' = [hit EXCEPT ![p] = TRUE]
          /\ idx' = [idx EXCEPT ![p] = 1]
     ELSE /\ Running(p, "train")
          /\ UNCHANGED <<hit, idx>>
  /\ UNCHANGED <<files, df, objs, calc, output, lstm_set, trainCount, nreq>>

Load_andResave(p) ==
  /\ pc[p] = "load"
  /\ LET k == Kinds[idx[p]]
         c == files[ArtifactPath(ticker[p], k)]
     IN  IF c.run # 0 /\ c.whole
         THEN /\ objs' = [objs EXCEPT ![p][k] = [run |-> c.run, fit |-> c.fit]]
              /\ IF idx[p] < Len(Kinds)
                 THEN /\ idx' = [idx EXCEPT ![p] = idx[p] + 1]
                      /\ Running(p, "load")
                 ELSE /\ idx' = [idx EXCEPT ![p] = 1]
                      /\ Running(p, "open")
              /\ UNCHANGED <<df, hit, calc, output, lstm_set>>
         ELSE Raise(p, "load failed")
  /\ UNCHANGED <<files, trainCount, nreq>>

\* Lines 155-158: joblib.load / load_model of the next file.  A file that is
\* missing or not completely written does not unpickle: the load raises.
Load(p) ==
  /\ pc[p] = "load"
  /\ LET k == Kinds[idx[p]]
         c == files[ArtifactPath(ticker[p], k)]
     IN  IF c.run # 0 /\ c.whole
         THEN /\ objs' = [objs EXCEPT ![p][k] = [run |-> c.run, fit |-> c.fit]]
              /\ IF idx[p] < Len(Kinds)
                 THEN /\ idx' = [idx EXCEPT ![p] = idx[p] + 1]
                      /\ Running(p, "load")
                 ELSE /\ Running(p, "infer")
                      /\ UNCHANGED idx
              /\ UNCHANGED <<df, hit, calc, output, lstm_set>>
         ELSE Raise(p, "load failed")
  /\ UNCHANGED <<files, trainCount, nreq>>

\* Lines 86-130, train_models up to the save: too few rows raise; otherwise the
\* scalers and both models are fitted in memory.
train_models(p) ==
  /\ pc[p] = "train"
  /\ trainCount' = [trainCount EXCEPT ![ticker[p]] = @ + 1]
  /\ IF InsufficientData(df[p].rows)
     THEN Raise(p, "Not enough data to train models")
     ELSE /\ objs' = [objs EXCEPT ![p] =
                        [k \in KindSet |->
                           [run |-> reqId[p],
                            fit |-> IF k = "scaler_y" THEN df[p].fit ELSE NoFit]]]
          /\ lstm_set' = [lstm_set EXCEPT ![p] = LstmExamples(TrainDf(df[p].rows))]
          /\ idx' = [idx EXCEPT ![p] = 1]
          /\ Running(p, "open")
          /\ UNCHANGED <<df, hit, calc, output>>
  /\ UNCHANGED <<files, nreq>>

\* Lines 133-136, first half of a joblib.dump / model.save: the file is opened
\* for writing, which creates or truncates it.
OpenFile(p) ==
  /\ pc[p] = "open"
  /\ files' = [files EXCEPT ![ArtifactPath(ticker[p], Kinds[idx[p]])] =
                 [run |-> reqId[p], whole |-> FALSE, fit |-> NoFit]]
  /\ Running(p, "write")
  /\ UNCHANGED <<df, objs, hit, calc, output, lstm_set, trainCount, idx, nreq>>

\* Lines 133-136, second half: the object is written and the file closed, or
\* the write fails (OSError) and leaves the truncated file behind.  After the
\* fourth file train_models returns (line 138).
WriteFile(p) ==
  /\ pc[p] = "write"
  /\ \/ /\ files' = [files EXCEPT ![ArtifactPath(ticker[p], Kinds[idx[p]])] =
                       [run |-> reqId[p], whole |-> TRUE,
                        fit |-> objs[p][Kinds[idx[p]]].fit]]
        /\ IF idx[p] < Len(Kinds)
           THEN /\ idx' = [idx EXCEPT ![p] = idx[p] + 1]
                /\ Running(p, "open")
           ELSE /\ Running(p, "infer")
                /\ UNCHANGED idx
        /\ UNCHANGED <<df, objs, hit, calc, output, lstm_set>>
     \/ /\ Raise(p, "write failed")
        /\ UNCHANGED files
  /\ UNCHANGED <<trainCount, nreq>>

\* Lines 162-194: the inference.  scaler_X.transform of an empty frame raises
\* (line 163); np.reshape of fewer than window_size rows to (1, window_size, 10)
\* raises (line 169); otherwise both models answer and the result is built.
Infer(p, fine) ==
  /\ pc[p] = "infer"
  /\ IF df[p].rows = 0
     THEN Raise(p, "Found array with 0 sample(s)")
     ELSE IF df[p].rows < window_size
     THEN Raise(p, "cannot reshape array")
     ELSE /\ \E r1, r2 \in RfVals(fine) : \E l1, l2 \in LstmVals(fine) :
               \E s \in Sentiments(fine) :
                 LET c == [rf_pred |-> <<r1, r2>>, lstm_pred |-> <<l1, l2>>,
                           fit |-> objs[p]["scaler_y"].fit, sentiment |-> s]
                 IN  /\ calc' = [calc EXCEPT ![p] = c]
                     /\ output' = [output EXCEPT ![p] = Output(ticker[p], c)]
          /\ Running(p, "print")
          /\ UNCHANGED <<df, objs, hit, lstm_set, idx>>
  /\ UNCHANGED <<files, trainCount, nreq>>

\* Lines 205-206: predict returned; the result is printed and the run ends.
PrintResult(p) ==
  /\ pc[p] = "print"
  /\ out' = [out EXCEPT ![p] = Append(out[p], output[p])]
  /\ Exit(p, 0)
  /\ UNCHANGED <<files, trainCount, nreq>>

\* Lines 133-136 interrupted: the process is killed while it saves, between two
\* files or in the middle of one.  It prints nothing and runs no handler; the
\* files it has created stay as they are.  No later run takes the place of a
\* killed process: the runs that follow are those of the other process.
Kill(p) ==
  /\ pc[p] \in {"open", "write"}
  /\ pc' = [pc EXCEPT ![p] = "killed"]
  /\ exitCode' = [exitCode EXCEPT ![p] = -9]
  /\ ticker' = [ticker EXCEPT ![p] = NoArg]
  /\ df' = [df EXCEPT ![p] = NoData]
  /\ reqId' = [reqId EXCEPT ![p] = 0]
  /\ objs' = [objs EXCEPT ![p] = NoObjs]
  /\ hit' = [hit EXCEPT ![p] = FALSE]
  /\ calc' = [calc EXCEPT ![p] = NoCalc]
  /\ output' = [output EXCEPT ![p] = NoOutput]
  /\ lstm_set' = [lstm_set EXCEPT ![p] = <<>>]
  /\ idx' = [idx EXCEPT ![p] = 0]
  /\ UNCHANGED <<files, out, trainCount, nreq>>

\* ----------------------------------------------------------- specifications
Step(p, fine) ==
  \/ Main(p, fine)
  \/ ExistsRf(p)
  \/ ExistsLstm(p)
  \/ Load(p)
  \/ train_models(p)
  \/ OpenFile(p)
  \/ WriteFile(p)
  \/ Infer(p, fine)
  \/ PrintResult(p)

\* Concurrent runs of the script.
Next == \E p \in Procs : Step(p, FALSE)

Spec == Init /\ [][Next]_vars

\* One run of the script after the other, with the numeric inputs varied.
NextSeq == Step("p1", TRUE)

SeqSpec == Init /\ [][NextSeq]_vars

\* Concurrent runs of the script, any of which may be killed while it saves.
NextKill == \E p \in Procs : Step(p, FALSE) \/ Kill(p)

KillSpec == Init /\ [][NextKill]_vars

\* ------------------------------------------------------------------ claims
\* All four files of symbol s are completely written by one training run.
Saved(s) ==
  /\ \A k \in KindSet : files[<<s, k>>].whole
  /\ \A k1, k2 \in KindSet : files[<<s, k1>>].run = files[<<s, k2>>].run

\* The process that takes the step.
Stepped(p) == pc'[p] # pc[p] \/ idx'[p] # idx[p] \/ reqId'[p] # reqId[p]

\* C1 (as claimed): a request that has loaded a symbol's artifact holds a tree
\* model, a sequence model and two scalers written by one and the same training
\* run.
C1_LoadedSetIsOneRun ==
  \A p \in Procs :
    (hit[p] /\ pc[p] \in {"infer", "print"}) =>
      \A k1, k2 \in KindSet : objs[p][k1].run = objs[p][k2].run

\* C2: sequential requests; once a symbol's artifact is completely saved, no
\* later step calls train_models for that symbol: its training count stays.
C2_NoRetrainAfterSave ==
  [][\A s \in Symbols : Saved(s) => trainCount'[s] = trainCount[s]]_vars

\* C2 witness: a later request took the load branch and is about to print its
\* result, the symbol having been trained once.
C2_Witness ==
  /\ pc["p1"] = "print"
  /\ hit["p1"]
  /\ Saved(ticker["p1"])
  /\ trainCount[ticker["p1"]] = 1
  /\ nreq = MaxRequests

\* C3 (as claimed): with at least one but fewer than window_size rows at
\* inference, predict returns a result whose forecast is the inverse-scaled tree
\* prediction alone.
C3_DegradesToTreeAlone ==
  [][\A p \in Procs :
       (pc[p] = "infer" /\ df[p].rows > 0 /\ df[p].rows < window_size /\ Stepped(p)) =>
         /\ pc'[p] = "print"
         /\ \A h \in Horizons :
              LET r == calc'[p].rf_pred[h]
                  f == calc'[p].fit
              IN  2 * Abs(PredScale * output'[p].forecast[h]
                          - (r * DataRange(f, h) + PredScale * f.min[h])) <= PredScale]_vars

\* C4: the confidence of every result, returned or printed, lies in [0, 1]
\* (0 .. 100 hundredths).
C4_ConfidenceInUnitInterval ==
  \A p \in Procs :
    /\ output[p].kind = "result" =>
         (output[p].confidence >= 0 /\ output[p].confidence <= 100)
    /\ \A i \in 1..Len(out[p]) :
         out[p][i].kind = "result" =>
           (out[p][i].confidence >= 0 /\ out[p][i].confidence <= 100)

\* C4 witness: the models disagree by more than the whole scaled range and the
\* confidence is 0.
C4_Witness ==
  \E p \in Procs :
    /\ pc[p] = "print"
    /\ Abs(calc[p].rf_pred[1] - calc[p].lstm_pred[1])
         + Abs(calc[p].rf_pred[2] - calc[p].lstm_pred[2]) > 2 * PredScale
    /\ output[p].confidence = 0

\* C5: a call of train_models with fewer than 100 rows left after the rows
\* without a target are dropped ends the request with the not-enough-data error
\* and changes no file; no process with so few rows is ever saving.
C5_InsufficientDataLeavesStore ==
  [][\A p \in Procs :
       /\ (pc[p] \in {"open", "write"}) => df[p].rows - TARGET_SHIFT >= MIN_TRAIN_ROWS
       /\ (pc[p] = "train" /\ df[p].rows - TARGET_SHIFT < MIN_TRAIN_ROWS /\ Stepped(p)) =>
            /\ files' = files
            /\ pc'[p] = "done"
            /\ exitCode'[p] = 1
            /\ out'[p] = <<ErrorJson("Not enough data to train models")>>]_vars

\* C5 witness: a request has failed for want of data and its symbol has no file.
C5_Witness ==
  \E p \in Procs :
    /\ pc[p] = "done"
    /\ out[p] = <<ErrorJson("Not enough data to train models")>>
    /\ trainCount["B"] = 1
    /\ \A k \in KindSet : files[<<"B", k>>] = Absent

\* C6 (as claimed): no request ends with a failure caused by a load that failed.
C6_LoadFailureNeverFails ==
  \A p \in Procs :
    \A i \in 1..Len(out[p]) : out[p][i] # ErrorJson("load failed")

\* C7: a running request has printed nothing; a finished one has printed exactly
\* one line, which is a complete result (exit 0) or an error (exit 1).
C7_OneTerminalOutcome ==
  \A p \in Procs :
    /\ Len(out[p]) <= 1
    /\ pc[p] \notin {"idle", "done"} => (out[p] = <<>> /\ exitCode[p] = -1)
    /\ pc[p] = "done" =>
         /\ Len(out[p]) = 1
         /\ \/ /\ out[p][1].kind = "result"
               /\ DOMAIN out[p][1] = {"kind", "ticker", "forecast", "indicators",
                                      "expected_move", "confidence"}
               /\ exitCode[p] = 0
            \/ /\ out[p][1].kind = "error"
               /\ DOMAIN out[p][1] = {"kind", "error"}
               /\ exitCode[p] = 1

\* C7 witness: one request has ended with a result and another with the error of
\* a failed step of predict.
C7_Witness ==
  /\ pc["p1"] = "done" /\ out["p1"][1].kind = "result"
  /\ pc["p2"] = "done" /\ out["p2"] = <<ErrorJson("write failed")>>

\* C8 (as claimed): the returned forecast is exactly the inverse transform of the
\* mean of the two scaled predictions.
C8_ForecastIsExactInverse ==
  \A p \in Procs :
    output[p].kind = "result" =>
      \A h \in Horizons :
        2 * PredScale * output[p].forecast[h]
          = (calc[p].rf_pred[h] + calc[p].lstm_pred[h]) * DataRange(calc[p].fit, h)
            + 2 * PredScale * calc[p].fit.min[h]

\* C8 (amended): the returned forecast is the inverse transform of the unweighted
\* mean of the two scaled predictions rounded to two decimals (within half a
\* cent of it), negative values included.
C8_ForecastIsRoundedInverseOfMean ==
  \A p \in Procs :
    output[p].kind = "result" =>
      \A h \in Horizons :
        LET range == IF calc[p].fit.max[h] = calc[p].fit.min[h]
                     THEN 1 ELSE calc[p].fit.max[h] - calc[p].fit.min[h]
            exact == (calc[p].rf_pred[h] + calc[p].lstm_pred[h]) * range
                     + 2 * PredScale * calc[p].fit.min[h]
        IN  2 * Abs(2 * PredScale * output[p].forecast[h] - exact) <= 2 * PredScale

\* C8 witness: the two models answer differently, the mean is not a whole number
\* of cents and the forecast is negative.
C8_Witness ==
  \E p \in Procs :
    /\ pc[p] = "print"
    /\ calc[p].rf_pred[1] # calc[p].lstm_pred[1]
    /\ output[p].forecast[1] < 0
    /\ 2 * PredScale * output[p].forecast[1]
         # (calc[p].rf_pred[1] + calc[p].lstm_pred[1]) * DataRange(calc[p].fit, 1)
           + 2 * PredScale * calc[p].fit.min[1]

\* C9: a step of a request for one symbol changes no file of another symbol, and
\* what it loads is the content of its own symbol's file.
C9_OtherSymbolsUntouched ==
  [][\A p \in Procs :
       Stepped(p) =>
         /\ \A path \in Paths : files'[path] # files[path] => path[1] = ticker[p]
         /\ \A k \in KindSet :
              (pc[p] = "load" /\ objs'[p][k] # objs[p][k] /\ pc'[p] # "done") =>
                objs'[p][k].run = files[<<ticker[p], k>>].run]_vars

\* C9 witness: symbol A's artifact is saved and a request for B is writing B's
\* files while another loads A's.
C9_Witness ==
  /\ Saved("A")
  /\ pc["p1"] = "write" /\ ticker["p1"] = "B" /\ idx["p1"] = Len(Kinds)
  /\ pc["p2"] = "load" /\ ticker["p2"] = "A" /\ idx["p2"] = Len(Kinds)

\* C10 (as claimed): every example of the sequence model's training set is a
\* frame of window_size rows labelled with the target of the frame's last row,
\* and every frame of the training matrix gives an example.
C10_LabelIsFrameLastRow ==
  \A p \in Procs :
    pc[p] \in {"open", "write"} =>
      /\ \A e \in DOMAIN lstm_set[p] :
           /\ lstm_set[p][e].stop - lstm_set[p][e].start = window_size
           /\ lstm_set[p][e].label = lstm_set[p][e].stop - 1
      /\ Len(lstm_set[p]) = (df[p].rows - TARGET_SHIFT) - window_size + 1

\* C11: no step of a request that took the load branch changes any file: the
\* symbol's tree model, sequence model and scalers on disk are after the request
\* what they were before it.
C11_CacheHitIsReadOnly ==
  [][\A p \in Procs : (Stepped(p) /\ (hit[p] \/ hit'[p])) => files' = files]_vars

\* C11 witness: a request has loaded all four files of a saved artifact and built
\* its result from the scaler on disk.
C11_Witness ==
  \E p \in Procs :
    /\ hit[p]
    /\ pc[p] = "print"
    /\ Saved(ticker[p])
    /\ \A k \in KindSet : objs[p][k].run = files[<<ticker[p], k>>].run
    /\ calc[p].fit = files[<<ticker[p], "scaler_y">>].fit

\* C12: in every state, also after a training run that failed or was killed
\* between two writes, a symbol whose tree-model file and sequence-model file
\* both exist has both scaler files; so a request on the load branch never finds
\* a scaler file missing.
C12_ModelsImplyScalers ==
  /\ \A s \in Symbols :
       (files[<<s, "rf">>].run # 0 /\ files[<<s, "lstm">>].run # 0) =>
         (files[<<s, "scaler_X">>].run # 0 /\ files[<<s, "scaler_y">>].run # 0)
  /\ \A p \in Procs :
       (hit[p] /\ pc[p] = "load") =>
         (files[<<ticker[p], "scaler_X">>].run # 0 /\ files[<<ticker[p], "scaler_y">>].run # 0)

\* C12 witness: a training run was killed and left files behind, one of them
\* truncated, and a later request for that symbol has taken the load branch.
C12_Witness ==
  /\ pc["p1"] = "killed"
  /\ hit["p2"] /\ pc["p2"] = "load" /\ idx["p2"] = 2
  /\ \E k \in KindSet : ~files[<<ticker["p2"], k>>].whole
  /\ \A k \in KindSet : files[<<ticker["p2"], k>>].run # 0

====
